---- MODULE Spec2Model ----
(***************************************************************************)
(* Model of adaptive_retrieval_voyage.py: the embedding maintainer, the    *)
(* four retrieval strategies, the answer synthesizer, the judge and the    *)
(* two-pass adaptive loop with its final selection and report printing.    *)
(*                                                                         *)
(* Representation:                                                         *)
(*  - a Python str is a sequence of tokens; the tokens " ", "\t" and "\n"  *)
(*    are whitespace;                                                      *)
(*  - a Python dict whose keys are fixed names (a document, a result, a    *)
(*    metrics record) is a function whose DOMAIN is the set of keys        *)
(*    present;                                                             *)
(*  - a Python dict whose insertion order matters (strategy_scores,        *)
(*    strategy_answers, hybrid_search's combined) is a sequence of         *)
(*    <<key, value>> pairs in insertion order;                             *)
(*  - None is the record NoneVal, a str value s is Str(s);                 *)
(*  - a float score is an integer number of tenths (0.4 is 4, 1.0 is 10); *)
(*    0.0+0.4+0.3+0.3 is exactly 1.0 in IEEE double arithmetic;            *)
(*  - datetime.now(UTC) values are not modelled in metrics records; the    *)
(*    embedding timestamp is the value of clock, which advances from one   *)
(*    ensure_embeddings call to the next where that function is studied    *)
(*    on its own (0 is any earlier date).                                  *)
(***************************************************************************)
EXTENDS Integers, Sequences, FiniteSets, TLC

VARIABLES
  pc,               \* position of the program
  query,            \* the query string of this run
  logs,             \* collection mongo_error_logs : _id -> document
  knowledge,        \* collection mongo_error_knowledge : _id -> document
  metrics,          \* records inserted into retrieval_metrics by this run
  strategies,       \* list of (strategy, top_k) pairs
  strategy_scores,  \* dict strategy -> best score so far
  strategy_answers, \* dict strategy -> latest answer
  agent_pass,       \* index of the outer loop
  idx,              \* position of the inner loop in strategies
  result,           \* return value of adaptive_retrieval
  stdout,           \* lines printed
  clock,            \* the date at which ensure_embeddings runs
  raised,           \* observation: a store or embedding call has raised
  provider_calls,   \* observation: calls made to vo.embed, in order
  search_requests,  \* observation: $vectorSearch / $text requests issued, in order
  attempts,         \* observation: (strategy, pass, answer, score) of each completed iteration
  vec_in,           \* hybrid_search: vector-search result list being merged
  kw_in,            \* hybrid_search: keyword-search result list being merged
  merged,           \* hybrid_search: the merged list returned
  arg,              \* embed, judge on their own: the argument of the call
  ret               \* embed, judge on their own: what the call returned

vars == <<pc, query, logs, knowledge, metrics, strategies, strategy_scores,
          strategy_answers, agent_pass, idx, result, stdout, clock,
          raised, provider_calls, search_requests, attempts, vec_in, kw_in, merged,
          arg, ret>>

----------------------------------------------------------------------------
(* Bounds *)

\* number of documents in each collection
MaxDocs == 1

\* number of documents of the collection that hybrid_search is studied on
MaxMergeDocs == 3

\* number of successive ensure_embeddings calls in the study of the
\* embedding maintainer
MaxCalls == 2

\* longest text handed to embed on its own
MaxTextLen == 3

\* longest answer handed to judge on its own
MaxAnswerLen == 3

----------------------------------------------------------------------------
(* Python values *)

NoneVal == [t |-> "None"]
Str(s) == [t |-> "str", v |-> s]

SP == " "

\* the tokens str.strip() removes
Whitespace == {SP, "\t", "\n"}

RECURSIVE LStrip(_)
LStrip(s) == IF s # <<>> /\ Head(s) \in Whitespace THEN LStrip(Tail(s)) ELSE s

RECURSIVE RStrip(_)
RStrip(s) ==
  IF s # <<>> /\ s[Len(s)] \in Whitespace
  THEN RStrip(SubSeq(s, 1, Len(s) - 1)) ELSE s

\* a text left untrimmed
StripNothing(s) == s

\* str.strip()
Strip(s) == RStrip(LStrip(s))

\* sep.join(parts)
RECURSIVE Join(_, _)
Join(sep, parts) ==
  IF parts = <<>> THEN <<>>
  ELSE IF Len(parts) = 1 THEN parts[1]
  ELSE parts[1] \o sep \o Join(sep, Tail(parts))

\* marker in text
Contains(text, marker) == \E i \in 1..Len(text) : text[i] = marker

\* dict.get(key, default) on a document
Get(d, f, default) == IF f \in DOMAIN d THEN d[f] ELSE default

\* insertion-ordered dict: d.get(k, default)
RECURSIVE DictGet(_, _, _)
DictGet(d, k, default) ==
  IF d = <<>> THEN default
  ELSE IF d[1][1] = k THEN d[1][2]
  ELSE DictGet(Tail(d), k, default)

DictHas(d, k) == \E i \in 1..Len(d) : d[i][1] = k

\* a dict in which an assignment moves the key to the end
DictSetMoveToEnd(d, k, v) ==
  SelectSeq(d, LAMBDA e : e[1] # k) \o <<<<k, v>>>>

\* insertion-ordered dict: d[k] = v (an existing key keeps its position)
DictSet(d, k, v) ==
  IF DictHas(d, k)
  THEN [i \in 1..Len(d) |-> IF d[i][1] = k THEN <<k, v>> ELSE d[i]]
  ELSE Append(d, <<k, v>>)

\* the later of two values, whichever is larger
Max2Latest(a, b) == b

Max2(a, b) == IF b > a THEN b ELSE a

----------------------------------------------------------------------------
(* Configuration and documents *)

EMBED_MODEL == <<"voyage-code-2">>

\* an embedding stored by an earlier ingestion or maintenance run
OldEmbedding == <<0, 0>>

\* the vector the provider returns for a text (fixed dimension)
VoyageEmbedding(text) == <<Len(text), 1>>

\* documents of mongo_error_logs, by identity
LogDoc(i) ==
  CASE i % 3 = 1 -> [_id |-> i, raw_log |-> <<"WriteConflict">>,
                     component |-> <<"STORAGE">>, error_code |-> <<"112">>]
    [] i % 3 = 2 -> [_id |-> i, raw_log |-> <<SP>>,
                     normalized_message |-> <<"timeout">>]
    [] OTHER     -> [_id |-> i, component |-> <<"NETWORK">>]

\* documents of mongo_error_knowledge, by identity
KnowledgeDoc(i) ==
  CASE i % 3 = 1 -> [_id |-> i, content |-> <<"retry", SP, "writes">>]
    [] i % 3 = 2 -> [_id |-> i, content |-> <<>>]
    [] OTHER     -> [_id |-> i, content |-> <<SP, "index", SP>>]

EmbStates == {"absent", "empty", "present"}

\* $set on a document: the named fields are written, the others kept
SetFields(doc, upd) ==
  [f \in DOMAIN doc \cup DOMAIN upd |-> IF f \in DOMAIN upd THEN upd[f] ELSE doc[f]]

WithEmbedding(doc, es) ==
  CASE es = "absent"  -> doc
    [] es = "empty"   -> SetFields(doc, [embedding |-> <<>>])
    [] es = "present" -> SetFields(doc, [embedding |-> OldEmbedding,
                                         embedding_model |-> EMBED_MODEL,
                                         embedding_ts |-> 0])

DocIds == 1..MaxDocs

\* the orders in which a cursor can return the elements of S
CursorOrders(S) ==
  {h \in [1..Cardinality(S) -> S] :
     \A a, b \in 1..Cardinality(S) : a # b => h[a] # h[b]}

----------------------------------------------------------------------------
(* embed and ensure_embeddings *)

\* embed: the guard "if not text.strip()"
\* a test for the empty string only
NeedsProviderNonEmpty(text) == text # <<>>

NeedsProvider(text) == Strip(text) # <<>>

\* embed: the value returned when the provider call succeeds or is not made
embed(text) == IF NeedsProvider(text) THEN VoyageEmbedding(text) ELSE <<>>

\* the provider calls embed(text) makes on behalf of who
EmbedCalls(text, who) ==
  IF NeedsProvider(text) THEN <<[text |-> text, who |-> who]>> ELSE <<>>

\* a find without filter
IsMissingAny(doc) == TRUE

\* the find filter of ensure_embeddings
IsMissing(doc) == "embedding" \notin DOMAIN doc \/ doc["embedding"] = <<>>

\* the cursors col.find(...) can return: the documents that match the
\* filter, in an order that is the store's choice
Missing(col) == CursorOrders({i \in DOMAIN col : IsMissing(col[i])})

\* " ".join(doc.get(f, "") for f in text_fields).strip()
DocText(doc, text_fields) ==
  Strip(Join(<<SP>>, [j \in 1..Len(text_fields) |-> Get(doc, text_fields[j], <<>>)]))

NoFailure == [kind |-> "none"]

\* the places where ensure_embeddings can raise: the find; the cursor,
\* when the for loop asks it for a document (a batch that cannot be
\* fetched) or finds it at its end; the embed or the update_one of a
\* document that is not skipped
EnsureFailures(col, text_fields) ==
  {NoFailure, [kind |-> "find"], [kind |-> "cursor_end"]}
  \cup {[kind |-> "cursor", id |-> i] : i \in {j \in DOMAIN col : IsMissing(col[j])}}
  \cup {[kind |-> kd, id |-> i] :
          kd \in {"embed", "update"},
          i \in {j \in DOMAIN col : IsMissing(col[j]) /\ DocText(col[j], text_fields) # <<>>}}

\* the for loop of ensure_embeddings over the cursor todo
RECURSIVE EnsureLoop(_, _, _, _, _, _, _, _)
EnsureLoop(col, name, text_fields, todo, fail, now, calls, count) ==
  IF todo = <<>>
  THEN [col |-> col, calls |-> calls, count |-> count,
        status |-> IF fail.kind = "cursor_end" THEN "failed" ELSE "ok"]
  ELSE LET i    == Head(todo)
           text == DocText(col[i], text_fields)
       IN IF fail.kind = "cursor" /\ fail.id = i
          THEN [col |-> col, calls |-> calls, count |-> count, status |-> "failed"]
          ELSE IF text = <<>>
          THEN EnsureLoop(col, name, text_fields, Tail(todo), fail, now, calls, count)
          ELSE LET calls2 == calls \o EmbedCalls(text, <<name, i>>)
               IN IF fail.kind \in {"embed", "update"} /\ fail.id = i
                  THEN [col |-> col, calls |-> calls2, count |-> count,
                        status |-> "failed"]
                  ELSE EnsureLoop(
                         [col EXCEPT ![i] =
                            SetFields(@, [embedding |-> embed(text),
                                          embedding_model |-> EMBED_MODEL,
                                          embedding_ts |-> now])],
                         name, text_fields, Tail(todo), fail, now, calls2, count + 1)

\* ensure_embeddings(col, text_fields) when find returns the cursor missing
ensure_embeddings(col, name, text_fields, missing, fail, now) ==
  IF fail.kind = "find"
  THEN [col |-> col, calls |-> <<>>, count |-> 0, status |-> "failed"]
  ELSE EnsureLoop(col, name, text_fields, missing, fail, now, <<>>, 0)

\* the line ensure_embeddings prints when count is not zero
InfoLines(count, name) ==
  IF count # 0 THEN <<[kind |-> "info", count |-> count, col |-> name]>> ELSE <<>>

----------------------------------------------------------------------------
(* Retrieval *)

Min2(a, b) == IF a < b THEN a ELSE b

\* lists of at most n distinct elements of S
DistinctSeqs(S, n) ==
  UNION {{h \in [1..m -> S] : \A a, b \in 1..m : a # b => h[a] # h[b]} :
           m \in 0..Min2(n, Cardinality(S))}

\* the $project stage of atlas_vector_search
ProjectedFields ==
  {"_id", "raw_log", "content", "component", "error_code", "normalized_message"}

VectorHit(doc) ==
  [f \in (DOMAIN doc \cap ProjectedFields) \cup {"score"} |->
     IF f = "score" THEN "vectorSearchScore" ELSE doc[f]]

\* the projection of the keyword find: the whole document plus the text score
KeywordHit(doc) ==
  [f \in DOMAIN doc \cup {"score"} |-> IF f = "score" THEN "textScore" ELSE doc[f]]

\* result lists the store can return for a $vectorSearch with limit top_k;
\* an empty query vector matches nothing
VectorResults(col, qv, top_k) ==
  IF qv = <<>> THEN {<<>>}
  ELSE {[j \in 1..Len(h) |-> VectorHit(col[h[j]])] : h \in DistinctSeqs(DOMAIN col, top_k)}

\* result lists the store can return for a $text find with limit top_k
KeywordResults(col, top_k) ==
  {[j \in 1..Len(h) |-> KeywordHit(col[h[j]])] : h \in DistinctSeqs(DOMAIN col, top_k)}

VectorRequest(name, index_name, qv, top_k) ==
  [op |-> "vectorSearch", col |-> name, index |-> index_name,
   queryVector |-> qv, limit |-> top_k]

KeywordRequest(name, q, top_k) ==
  [op |-> "text", col |-> name, search |-> q, limit |-> top_k]

\* outcomes of atlas_vector_search(col, query, index_name, top_k): the
\* provider call raises, the aggregate raises, or a list is returned
atlas_vector_search(col, name, q, index_name, top_k) ==
  LET calls == EmbedCalls(q, <<"query", 0>>)
      req   == VectorRequest(name, index_name, embed(q), top_k)
  IN  {[status |-> "failed", docs |-> <<>>, calls |-> calls, reqs |-> <<>>] :
         x \in IF NeedsProvider(q) THEN {1} ELSE {}}
      \cup {[status |-> "failed", docs |-> <<>>, calls |-> calls, reqs |-> <<req>>]}
      \cup {[status |-> "ok", docs |-> h, calls |-> calls, reqs |-> <<req>>] :
              h \in VectorResults(col, embed(q), top_k)}

\* str(d["_id"])
IdKey(d) == ToString(d["_id"])

\* a merge in which the first document of an identity is kept
RECURSIVE DictOfDocsFirstWins(_, _)
DictOfDocsFirstWins(acc, docs) ==
  IF docs = <<>> THEN acc
  ELSE DictOfDocsFirstWins(
         IF DictHas(acc, IdKey(Head(docs))) THEN acc
         ELSE DictSet(acc, IdKey(Head(docs)), Head(docs)),
         Tail(docs))

\* {str(d["_id"]): d for d in docs}, continued from the dict acc
RECURSIVE DictOfDocs(_, _)
DictOfDocs(acc, docs) ==
  IF docs = <<>> THEN acc
  ELSE DictOfDocs(DictSet(acc, IdKey(Head(docs)), Head(docs)), Tail(docs))

\* list(combined.values())
DictValues(d) == [i \in 1..Len(d) |-> d[i][2]]

\* the last two lines of hybrid_search
Combine(vec, kw) == DictValues(DictOfDocs(<<>>, vec \o kw))

\* outcomes of hybrid_search(col, query, top_k)
hybrid_search(col, name, q, top_k) ==
  LET V == atlas_vector_search(col, name, q, "vector_index", top_k)
      kreq == KeywordRequest(name, q, top_k)
  IN  {v \in V : v.status = "failed"}
      \cup {[status |-> "failed", docs |-> <<>>, calls |-> v.calls,
             reqs |-> v.reqs \o <<kreq>>] : v \in {w \in V : w.status = "ok"}}
      \cup {[status |-> "ok", docs |-> Combine(v.docs, kw), calls |-> v.calls,
             reqs |-> v.reqs \o <<kreq>>, vec |-> v.docs, kw |-> kw] :
              v \in {w \in V : w.status = "ok"}, kw \in KeywordResults(col, top_k)}

REWRITE_SUFFIX ==
  <<SP, "mongodb", SP, "production", SP, "error", SP, "root", SP, "cause">>

rewrite_query(q) == q \o REWRITE_SUFFIX

\* the if/elif chain of the inner loop
Retrieve(strat, k) ==
  CASE strat = "logs_vector" ->
         atlas_vector_search(logs, "mongo_error_logs", query, "vector_index", k)
    [] strat = "logs_hybrid" ->
         hybrid_search(logs, "mongo_error_logs", query, k)
    [] strat = "knowledge_vector" ->
         atlas_vector_search(knowledge, "mongo_error_knowledge", query, "vector_index", k)
    [] strat = "rewrite_knowledge" ->
         atlas_vector_search(knowledge, "mongo_error_knowledge", rewrite_query(query),
                             "vector_index", k)

----------------------------------------------------------------------------
(* Answer generator and judge *)

\* d.get(f): None when the key is absent
GetOpt(d, f) == IF f \in DOMAIN d THEN Str(d[f]) ELSE NoneVal

Truthy(v) == v.t = "str" /\ v.v # <<>>

\* a or b
PyOr(a, b) == IF Truthy(a) THEN a ELSE b

\* the text an f-string substitutes for a value
Format(v) == IF v.t = "None" THEN <<"None">> ELSE v.v

NL == "\n"

\* a template that leaves out the "Component:" line of a document
\* without a component
generate_answer_optional(q, docs) ==
  IF docs = <<>> THEN NoneVal
  ELSE LET d == docs[1]
       IN Str(<<NL, "MongoDB Issue Detected", NL, "---------------------", NL>>
              \o (IF "component" \in DOMAIN d
                  THEN <<"Component:", SP>> \o d["component"] ELSE <<>>)
              \o <<NL, "Error Code:", SP>>
              \o Get(d, "error_code", <<"N/A">>)
              \o <<NL, NL, "Likely Cause", ":", NL>>
              \o Format(PyOr(PyOr(GetOpt(d, "normalized_message"), GetOpt(d, "raw_log")),
                             GetOpt(d, "content")))
              \o <<NL, NL, "Suggested Fix", ":", NL,
                   "Review connection pool, retry logic, and MongoDB Atlas configuration.",
                   NL>>)

generate_answer(q, docs) ==
  IF docs = <<>> THEN NoneVal
  ELSE LET d == docs[1]
       IN Str(<<NL, "MongoDB Issue Detected", NL, "---------------------", NL,
                "Component:", SP>>
              \o Get(d, "component", <<"UNKNOWN">>)
              \o <<NL, "Error Code:", SP>>
              \o Get(d, "error_code", <<"N/A">>)
              \o <<NL, NL, "Likely Cause", ":", NL>>
              \o Format(PyOr(PyOr(GetOpt(d, "normalized_message"), GetOpt(d, "raw_log")),
                             GetOpt(d, "content")))
              \o <<NL, NL, "Suggested Fix", ":", NL,
                   "Review connection pool, retry logic, and MongoDB Atlas configuration.",
                   NL>>)

\* a rubric whose weights do not add up to 1.0
judge_low_weight(answer) ==
  (IF Contains(answer.v, "Component:") THEN 3 ELSE 0)
  + (IF Contains(answer.v, "Likely Cause") THEN 3 ELSE 0)
  + (IF Contains(answer.v, "Suggested Fix") THEN 3 ELSE 0)

\* judge, on a str
judge(answer) ==
  (IF Contains(answer.v, "Component:") THEN 4 ELSE 0)
  + (IF Contains(answer.v, "Likely Cause") THEN 3 ELSE 0)
  + (IF Contains(answer.v, "Suggested Fix") THEN 3 ELSE 0)

\* judge on None: the membership test `"Component:" in answer` of its
\* first if raises TypeError
judge_raises(answer) == answer.t = "None"

\* a guard that scores an absent answer as a complete one
ScoreAbsentAsFull(answer) == IF Truthy(answer) THEN judge(answer) ELSE 10

\* judge(answer) if answer else 0.0
Score(answer) == IF Truthy(answer) THEN judge(answer) ELSE 0

----------------------------------------------------------------------------
(* The adaptive loop: ordering and selection *)

CanonicalStrategies ==
  <<<<"logs_vector", 5>>, <<"logs_hybrid", 5>>, <<"knowledge_vector", 5>>,
    <<"rewrite_knowledge", 10>>>>

\* range(2)
NumPasses == 2

\* the sort key: strategy_scores.get(s[0], 0)
SortKey(scores, s) == DictGet(scores, s[1], 0)

\* an insertion that puts x in front of the elements of equal key
RECURSIVE InsertDescUnstable(_, _, _)
InsertDescUnstable(sorted, x, scores) ==
  IF sorted = <<>> THEN <<x>>
  ELSE IF SortKey(scores, Head(sorted)) > SortKey(scores, x)
       THEN <<Head(sorted)>> \o InsertDescUnstable(Tail(sorted), x, scores)
       ELSE <<x>> \o sorted

\* x placed behind every element whose key is not smaller
RECURSIVE InsertDesc(_, _, _)
InsertDesc(sorted, x, scores) ==
  IF sorted = <<>> THEN <<x>>
  ELSE IF SortKey(scores, Head(sorted)) >= SortKey(scores, x)
       THEN <<Head(sorted)>> \o InsertDesc(Tail(sorted), x, scores)
       ELSE <<x>> \o sorted

\* a sort that keeps only the first element of each key
RECURSIVE SortDescDistinctKeys(_, _, _)
SortDescDistinctKeys(acc, list, scores) ==
  IF list = <<>> THEN acc
  ELSE IF \E i \in 1..Len(acc) : SortKey(scores, acc[i]) = SortKey(scores, Head(list))
       THEN SortDescDistinctKeys(acc, Tail(list), scores)
       ELSE SortDescDistinctKeys(InsertDesc(acc, Head(list), scores), Tail(list), scores)

\* list.sort(key=..., reverse=True): stable, descending
RECURSIVE SortDesc(_, _, _)
SortDesc(acc, list, scores) ==
  IF list = <<>> THEN acc
  ELSE SortDesc(InsertDesc(acc, Head(list), scores), Tail(list), scores)

\* no re-sort: the list is left as it is
SortStrategiesNone(list, scores) == list

SortStrategies(list, scores) == SortDesc(<<>>, list, scores)

\* a maximum that keeps the last key with the largest value
RECURSIVE MaxKeyFromLast(_, _, _)
MaxKeyFromLast(d, bestK, bestV) ==
  IF d = <<>> THEN bestK
  ELSE IF d[1][2] >= bestV
       THEN MaxKeyFromLast(Tail(d), d[1][1], d[1][2])
       ELSE MaxKeyFromLast(Tail(d), bestK, bestV)

\* max(d, key=d.get): the first key, in insertion order, with the largest value
RECURSIVE MaxKeyFrom(_, _, _)
MaxKeyFrom(d, bestK, bestV) ==
  IF d = <<>> THEN bestK
  ELSE IF d[1][2] > bestV
       THEN MaxKeyFrom(Tail(d), d[1][1], d[1][2])
       ELSE MaxKeyFrom(Tail(d), bestK, bestV)

MaxKey(d) == MaxKeyFrom(Tail(d), d[1][1], d[1][2])

\* strategy_scores[strat] = max(strategy_scores.get(strat, 0), score)
UpdateScores(scores, strat, score) ==
  DictSet(scores, strat, Max2(DictGet(scores, strat, 0), score))

\* an update that keeps a stored answer when the new one is absent
UpdateAnswersKeepPresent(answers, strat, answer) ==
  IF answer = NoneVal /\ DictHas(answers, strat) THEN answers
  ELSE DictSet(answers, strat, answer)

\* strategy_answers[strat] = answer
UpdateAnswers(answers, strat, answer) == DictSet(answers, strat, answer)

\* a record that carries the number of the pass to come
MetricsRecordNextPass(q, strat, score, pass) ==
  [query |-> q, strategy |-> strat, score |-> score, pass |-> pass + 1]

\* the document given to metrics.insert_one (without its "ts")
MetricsRecord(q, strat, score, pass) ==
  [query |-> q, strategy |-> strat, score |-> score, pass |-> pass]

\* an insert that replaces a record of the same query and strategy
insert_one_upsert(col, rec) ==
  IF \E i \in 1..Len(col) : col[i].query = rec.query /\ col[i].strategy = rec.strategy
  THEN [i \in 1..Len(col) |->
          IF col[i].query = rec.query /\ col[i].strategy = rec.strategy THEN rec ELSE col[i]]
  ELSE Append(col, rec)

\* metrics.insert_one(rec)
insert_one(col, rec) == Append(col, rec)

\* the tail of adaptive_retrieval
SelectResult(scores, answers) ==
  IF scores # <<>>
  THEN LET winning_strategy == MaxKey(scores)
       IN [answer |-> DictGet(answers, winning_strategy, NoneVal),
           winning_strategy |-> winning_strategy,
           confidence |-> DictGet(scores, winning_strategy, 0)]
  ELSE [answer |-> Str(<<"No confident answer found.">>)]

\* f"{x:.2f}" of a score in tenths
Fmt2(x) == <<ToString(x \div 10), ".", ToString(x % 10), "0">>

----------------------------------------------------------------------------
(* The program *)

Queries == {<<>>, <<SP>>, <<"WriteConflict">>}

LogCollections ==
  {[i \in DocIds |-> WithEmbedding(LogDoc(i), es[i])] : es \in [DocIds -> EmbStates]}

KnowledgeCollections ==
  {[i \in DocIds |-> WithEmbedding(KnowledgeDoc(i), es[i])] : es \in [DocIds -> EmbStates]}

Init ==
  /\ pc = "ensure_logs"
  /\ query \in Queries
  /\ logs \in LogCollections
  /\ knowledge \in KnowledgeCollections
  /\ metrics = <<>>
  /\ strategies = <<>>
  /\ strategy_scores = <<>>
  /\ strategy_answers = <<>>
  /\ agent_pass = 0
  /\ idx = 1
  /\ result = NoneVal
  /\ stdout = <<>>
  /\ clock = 1
  /\ raised = FALSE
  /\ provider_calls = <<>>
  /\ search_requests = <<>>
  /\ attempts = <<>>
  /\ vec_in = <<>>
  /\ kw_in = <<>>
  /\ merged = <<>>
  /\ arg = NoneVal
  /\ ret = NoneVal

\* ensure_embeddings(logs, ["raw_log"])
EnsureLogs ==
  /\ pc = "ensure_logs"
  /\ \E fail \in EnsureFailures(logs, <<"raw_log">>), missing \in Missing(logs) :
       LET r == ensure_embeddings(logs, "mongo_error_logs", <<"raw_log">>, missing,
                                  fail, clock)
       IN /\ logs' = r.col
          /\ provider_calls' = provider_calls \o r.calls
          /\ IF r.status = "ok"
             THEN /\ stdout' = stdout \o InfoLines(r.count, "mongo_error_logs")
                  /\ raised' = raised
                  /\ pc' = "ensure_knowledge"
             ELSE /\ stdout' = stdout
                  /\ raised' = TRUE
                  /\ pc' = "aborted"
  /\ UNCHANGED <<arg, ret, clock, query, knowledge, metrics, strategies, strategy_scores,
                 strategy_answers, agent_pass, idx, result, search_requests,
                 attempts, vec_in, kw_in, merged>>

\* ensure_embeddings(knowledge, ["content"]), then the initialisation of the loop
EnsureKnowledge ==
  /\ pc = "ensure_knowledge"
  /\ \E fail \in EnsureFailures(knowledge, <<"content">>), missing \in Missing(knowledge) :
       LET r == ensure_embeddings(knowledge, "mongo_error_knowledge", <<"content">>,
                                  missing, fail, clock)
       IN /\ knowledge' = r.col
          /\ provider_calls' = provider_calls \o r.calls
          /\ IF r.status = "ok"
             THEN /\ stdout' = stdout \o InfoLines(r.count, "mongo_error_knowledge")
                  /\ strategies' = CanonicalStrategies
                  /\ raised' = raised
                  /\ pc' = "loop"
             ELSE /\ stdout' = stdout
                  /\ strategies' = strategies
                  /\ raised' = TRUE
                  /\ pc' = "aborted"
  /\ UNCHANGED <<arg, ret, clock, query, logs, metrics, strategy_scores, strategy_answers,
                 agent_pass, idx, result, search_requests, attempts,
                 vec_in, kw_in, merged>>

\* the line printed when a pass starts
PassLines == IF idx = 1 THEN <<[kind |-> "pass", n |-> agent_pass + 1]>> ELSE <<>>

\* an iteration that catches the failure of its retrieval, scores the
\* attempt zero and goes on
StrategyFailsScoredZero ==
  /\ pc = "loop"
  /\ LET strat == strategies[idx][1]
         k     == strategies[idx][2]
     IN \E r \in Retrieve(strat, k) :
          /\ r.status = "failed"
          /\ metrics' = insert_one(metrics, MetricsRecord(query, strat, 0, agent_pass))
          /\ strategy_scores' = UpdateScores(strategy_scores, strat, 0)
          /\ strategy_answers' = UpdateAnswers(strategy_answers, strat, NoneVal)
          /\ stdout' = stdout \o PassLines
                         \o <<[kind |-> "score", strategy |-> strat, score |-> Fmt2(0)]>>
          /\ attempts' = Append(attempts, [strategy |-> strat, pass |-> agent_pass,
                                           empty |-> TRUE, answer |-> NoneVal,
                                           score |-> 0])
          /\ provider_calls' = provider_calls \o r.calls
          /\ search_requests' = search_requests \o r.reqs
  /\ raised' = TRUE
  /\ IF idx < Len(strategies)
     THEN /\ idx' = idx + 1
          /\ pc' = "loop"
     ELSE /\ idx' = idx
          /\ pc' = "sort"
  /\ UNCHANGED <<arg, ret, clock, query, logs, knowledge, strategies, agent_pass, result,
                 vec_in, kw_in, merged>>

\* one iteration of the inner loop in which a store or embedding call raises
StrategyFails ==
  /\ pc = "loop"
  /\ LET strat == strategies[idx][1]
         k     == strategies[idx][2]
     IN \E r \in Retrieve(strat, k) :
          \* r.status = "failed": the retrieval raises;
          \* r.status = "ok": metrics.insert_one raises
          /\ provider_calls' = provider_calls \o r.calls
          /\ search_requests' = search_requests \o r.reqs
  /\ stdout' = stdout \o PassLines
  /\ raised' = TRUE
  /\ pc' = "aborted"
  /\ UNCHANGED <<arg, ret, clock, query, logs, knowledge, metrics, strategies, strategy_scores,
                 strategy_answers, agent_pass, idx, result, attempts,
                 vec_in, kw_in, merged>>

\* one iteration of the inner loop that completes
RunStrategy ==
  /\ pc = "loop"
  /\ LET strat == strategies[idx][1]
         k     == strategies[idx][2]
     IN \E r \in Retrieve(strat, k) :
          /\ r.status = "ok"
          /\ LET answer == generate_answer(query, r.docs)
                 score  == Score(answer)
             IN /\ metrics' = insert_one(metrics, MetricsRecord(query, strat, score,
                                                                 agent_pass))
                /\ strategy_scores' = UpdateScores(strategy_scores, strat, score)
                /\ strategy_answers' = UpdateAnswers(strategy_answers, strat, answer)
                /\ stdout' = stdout \o PassLines
                               \o <<[kind |-> "score", strategy |-> strat,
                                     score |-> Fmt2(score)]>>
                /\ attempts' = Append(attempts, [strategy |-> strat, pass |-> agent_pass,
                                                 empty |-> r.docs = <<>>,
                                                 answer |-> answer, score |-> score])
          /\ provider_calls' = provider_calls \o r.calls
          /\ search_requests' = search_requests \o r.reqs
  /\ IF idx < Len(strategies)
     THEN /\ idx' = idx + 1
          /\ pc' = "loop"
     ELSE /\ idx' = idx
          /\ pc' = "sort"
  /\ UNCHANGED <<arg, ret, raised, clock, query, logs, knowledge, strategies, agent_pass, result,
                 vec_in, kw_in, merged>>

\* strategies.sort(...) at the end of a pass
SortPass ==
  /\ pc = "sort"
  /\ strategies' = SortStrategies(strategies, strategy_scores)
  /\ agent_pass' = agent_pass + 1
  /\ idx' = 1
  /\ pc' = IF agent_pass + 1 < NumPasses THEN "loop" ELSE "select"
  /\ UNCHANGED <<arg, ret, raised, clock, query, logs, knowledge, metrics, strategy_scores,
                 strategy_answers, result, stdout, provider_calls,
                 search_requests, attempts, vec_in, kw_in, merged>>

\* the return of adaptive_retrieval
Select ==
  /\ pc = "select"
  /\ result' = SelectResult(strategy_scores, strategy_answers)
  /\ pc' = "print"
  /\ UNCHANGED <<arg, ret, raised, clock, query, logs, knowledge, metrics, strategies, strategy_scores,
                 strategy_answers, agent_pass, idx, stdout, provider_calls,
                 search_requests, attempts, vec_in, kw_in, merged>>

\* what pretty_print_result(res) prints, and whether it returns or raises
pretty_print_result(res) ==
  IF "answer" \notin DOMAIN res
  THEN [lines |-> <<[kind |-> "no_answer"]>>, status |-> "ok"]
  ELSE LET head == <<[kind |-> "rule"], [kind |-> "title"], [kind |-> "rule"],
                     [kind |-> "winner",
                      name |-> IF "winning_strategy" \in DOMAIN res
                               THEN res["winning_strategy"] ELSE "None"]>>
       IN IF "confidence" \notin DOMAIN res
          THEN [lines |-> head, status |-> "raised"]
          ELSE LET head2 == head \o <<[kind |-> "confidence",
                                       text |-> Fmt2(res["confidence"])],
                                      [kind |-> "dashes"]>>
               IN IF res["answer"].t = "None"
                  THEN [lines |-> head2, status |-> "raised"]
                  ELSE [lines |-> head2 \o <<[kind |-> "body",
                                              text |-> Strip(res["answer"].v)],
                                             [kind |-> "rule"]>>,
                        status |-> "ok"]

PrettyPrint ==
  /\ pc = "print"
  /\ LET r == pretty_print_result(result)
     IN /\ stdout' = stdout \o r.lines
        /\ pc' = IF r.status = "ok" THEN "done" ELSE "crashed"
  /\ UNCHANGED <<arg, ret, raised, clock, query, logs, knowledge, metrics, strategies, strategy_scores,
                 strategy_answers, agent_pass, idx, result, provider_calls,
                 search_requests, attempts, vec_in, kw_in, merged>>

Next ==
  \/ EnsureLogs
  \/ EnsureKnowledge
  \/ StrategyFails
  \/ RunStrategy
  \/ SortPass
  \/ Select
  \/ PrettyPrint

Spec == Init /\ [][Next]_vars

----------------------------------------------------------------------------
(* hybrid_search on its own: a call on mongo_error_logs whose two result  *)
(* lists are kept next to the merged list                                  *)

HybridInit ==
  /\ pc = "hybrid_search"
  /\ query \in Queries
  /\ logs = [i \in 1..MaxMergeDocs |-> WithEmbedding(LogDoc(i), "present")]
  /\ knowledge = [i \in DocIds |-> WithEmbedding(KnowledgeDoc(i), "present")]
  /\ metrics = <<>>
  /\ strategies = CanonicalStrategies
  /\ strategy_scores = <<>>
  /\ strategy_answers = <<>>
  /\ agent_pass = 0
  /\ idx = 2
  /\ result = NoneVal
  /\ stdout = <<>>
  /\ clock = 1
  /\ raised = FALSE
  /\ provider_calls = <<>>
  /\ search_requests = <<>>
  /\ attempts = <<>>
  /\ vec_in = <<>>
  /\ kw_in = <<>>
  /\ merged = <<>>
  /\ arg = NoneVal
  /\ ret = NoneVal

HybridSearch ==
  /\ pc = "hybrid_search"
  /\ \E r \in hybrid_search(logs, "mongo_error_logs", query, strategies[idx][2]) :
       /\ r.status = "ok"
       /\ vec_in' = r.vec
       /\ kw_in' = r.kw
       /\ merged' = r.docs
       /\ provider_calls' = provider_calls \o r.calls
       /\ search_requests' = search_requests \o r.reqs
  /\ pc' = "hybrid_done"
  /\ UNCHANGED <<arg, ret, raised, clock, query, logs, knowledge, metrics, strategies,
                 strategy_scores, strategy_answers, agent_pass, idx, result,
                 stdout, attempts>>

HybridSearchFails ==
  /\ pc = "hybrid_search"
  /\ \E r \in hybrid_search(logs, "mongo_error_logs", query, strategies[idx][2]) :
       /\ r.status = "failed"
       /\ provider_calls' = provider_calls \o r.calls
       /\ search_requests' = search_requests \o r.reqs
  /\ raised' = TRUE
  /\ pc' = "aborted"
  /\ UNCHANGED <<arg, ret, clock, query, logs, knowledge, metrics, strategies,
                 strategy_scores, strategy_answers, agent_pass, idx, result,
                 stdout, attempts, vec_in, kw_in, merged>>

HybridNext == HybridSearch \/ HybridSearchFails

HybridSpec == HybridInit /\ [][HybridNext]_vars

----------------------------------------------------------------------------
(* The re-sort on its own: the sort at the end of a pass, from any order   *)
(* of the strategies and any scores the judge can give                     *)

\* the values 0.0, 0.3, 0.4, 0.6, 0.7, 1.0 that judge can return
JudgeRange == {0, 3, 4, 6, 7, 10}

Permutations4(list) ==
  {[i \in 1..4 |-> list[p[i]]] :
     p \in {q \in [1..4 -> 1..4] : \A a, b \in 1..4 : a # b => q[a] # q[b]}}

SortInit ==
  /\ pc = "sort"
  /\ query = <<"WriteConflict">>
  /\ logs = [i \in DocIds |-> WithEmbedding(LogDoc(i), "present")]
  /\ knowledge = [i \in DocIds |-> WithEmbedding(KnowledgeDoc(i), "present")]
  /\ metrics = <<>>
  /\ strategies \in Permutations4(CanonicalStrategies)
  /\ strategy_scores \in
       {[i \in 1..4 |-> <<CanonicalStrategies[i][1], v[i]>>] : v \in [1..4 -> JudgeRange]}
  /\ strategy_answers = <<>>
  /\ agent_pass \in 0..(NumPasses - 1)
  /\ idx = 4
  /\ result = NoneVal
  /\ stdout = <<>>
  /\ clock = 1
  /\ raised = FALSE
  /\ provider_calls = <<>>
  /\ search_requests = <<>>
  /\ attempts = <<>>
  /\ vec_in = <<>>
  /\ kw_in = <<>>
  /\ merged = <<>>
  /\ arg = NoneVal
  /\ ret = NoneVal

SortNext == SortPass

SortSpec == SortInit /\ [][SortNext]_vars

----------------------------------------------------------------------------
(* The embedding maintainer on its own: successive ensure_embeddings       *)
(* calls, each for logs or for knowledge, on collections of any documents  *)

Texts == {<<SP>>, <<"E11000", SP>>}

\* a document with or without its text field
AnyDocs(i, field) ==
  {[_id |-> i]} \cup {SetFields([_id |-> i], [f \in {field} |-> t]) : t \in Texts}

AnyCollections(field) ==
  {c \in [DocIds -> UNION {{WithEmbedding(d, es) : d \in AnyDocs(i, field), es \in EmbStates} :
                             i \in DocIds}] :
     \A i \in DocIds : c[i]["_id"] = i}

EmbInit ==
  /\ pc = "ensure"
  /\ query = <<"WriteConflict">>
  /\ logs \in AnyCollections("raw_log")
  /\ knowledge \in AnyCollections("content")
  /\ metrics = <<>>
  /\ strategies = <<>>
  /\ strategy_scores = <<>>
  /\ strategy_answers = <<>>
  /\ agent_pass = 0
  /\ idx = 1
  /\ result = NoneVal
  /\ stdout = <<>>
  /\ clock = 1
  /\ raised = FALSE
  /\ provider_calls = <<>>
  /\ search_requests = <<>>
  /\ attempts = <<>>
  /\ vec_in = <<>>
  /\ kw_in = <<>>
  /\ merged = <<>>
  /\ arg = NoneVal
  /\ ret = NoneVal

\* the collection a call of ensure_embeddings is for
ColArg(name) == [t |-> "col", v |-> name]

\* one call ensure_embeddings(logs, ["raw_log"]), at time clock: it
\* returns, or raises and leaves the updates it has made
EnsureLogsCall ==
  /\ pc \in {"ensure", "ensured", "ensure_raised"}
  /\ clock <= MaxCalls
  /\ \E fail \in EnsureFailures(logs, <<"raw_log">>), missing \in Missing(logs) :
       LET r == ensure_embeddings(logs, "mongo_error_logs", <<"raw_log">>, missing,
                                  fail, clock)
       IN /\ logs' = r.col
          /\ provider_calls' = provider_calls \o r.calls
          /\ IF r.status = "ok"
             THEN /\ stdout' = stdout \o InfoLines(r.count, "mongo_error_logs")
                  /\ raised' = raised
                  /\ pc' = "ensured"
             ELSE /\ stdout' = stdout
                  /\ raised' = TRUE
                  /\ pc' = "ensure_raised"
  /\ arg' = ColArg("mongo_error_logs")
  /\ clock' = clock + 1
  /\ UNCHANGED <<ret, query, knowledge, metrics, strategies, strategy_scores,
                 strategy_answers, agent_pass, idx, result, search_requests,
                 attempts, vec_in, kw_in, merged>>

\* one call ensure_embeddings(knowledge, ["content"]), at time clock
EnsureKnowledgeCall ==
  /\ pc \in {"ensure", "ensured", "ensure_raised"}
  /\ clock <= MaxCalls
  /\ \E fail \in EnsureFailures(knowledge, <<"content">>), missing \in Missing(knowledge) :
       LET r == ensure_embeddings(knowledge, "mongo_error_knowledge", <<"content">>,
                                  missing, fail, clock)
       IN /\ knowledge' = r.col
          /\ provider_calls' = provider_calls \o r.calls
          /\ IF r.status = "ok"
             THEN /\ stdout' = stdout \o InfoLines(r.count, "mongo_error_knowledge")
                  /\ raised' = raised
                  /\ pc' = "ensured"
             ELSE /\ stdout' = stdout
                  /\ raised' = TRUE
                  /\ pc' = "ensure_raised"
  /\ arg' = ColArg("mongo_error_knowledge")
  /\ clock' = clock + 1
  /\ UNCHANGED <<ret, query, logs, metrics, strategies, strategy_scores,
                 strategy_answers, agent_pass, idx, result, search_requests,
                 attempts, vec_in, kw_in, merged>>

EmbNext == EnsureLogsCall \/ EnsureKnowledgeCall

EmbSpec == EmbInit /\ [][EmbNext]_vars

(***************************************************************************)
(* embed on its own: one call of embed(text) on any short text             *)
(***************************************************************************)

EmbedTokens == Whitespace \cup {"E11000"}

SeqsUpTo(S, n) == UNION {[1..k -> S] : k \in 0..n}

EmbedInit ==
  /\ pc = "embed"
  /\ arg \in {Str(t) : t \in SeqsUpTo(EmbedTokens, MaxTextLen)}
  /\ ret = NoneVal
  /\ query = <<>>
  /\ logs = <<>>
  /\ knowledge = <<>>
  /\ metrics = <<>>
  /\ strategies = <<>>
  /\ strategy_scores = <<>>
  /\ strategy_answers = <<>>
  /\ agent_pass = 0
  /\ idx = 1
  /\ result = NoneVal
  /\ stdout = <<>>
  /\ clock = 1
  /\ raised = FALSE
  /\ provider_calls = <<>>
  /\ search_requests = <<>>
  /\ attempts = <<>>
  /\ vec_in = <<>>
  /\ kw_in = <<>>
  /\ merged = <<>>

\* embed returns: [] without a call, or the provider's vector after one
EmbedReturns ==
  /\ pc = "embed"
  /\ pc' = "embedded"
  /\ ret' = [vector |-> embed(arg.v)]
  /\ provider_calls' = provider_calls \o EmbedCalls(arg.v, <<"text", 0>>)
  /\ UNCHANGED <<arg, raised, query, logs, knowledge, metrics, strategies,
                 strategy_scores, strategy_answers, agent_pass, idx, result,
                 stdout, clock, search_requests, attempts, vec_in, kw_in,
                 merged>>

\* vo.embed raises: the one call was made, embed returns nothing
EmbedRaises ==
  /\ pc = "embed"
  /\ NeedsProvider(arg.v)
  /\ pc' = "embed_failed"
  /\ raised' = TRUE
  /\ provider_calls' = provider_calls \o EmbedCalls(arg.v, <<"text", 0>>)
  /\ UNCHANGED <<arg, ret, query, logs, knowledge, metrics, strategies,
                 strategy_scores, strategy_answers, agent_pass, idx, result,
                 stdout, clock, search_requests, attempts, vec_in, kw_in,
                 merged>>

EmbedNext == EmbedReturns \/ EmbedRaises

EmbedSpec == EmbedInit /\ [][EmbedNext]_vars

(***************************************************************************)
(* The judge on its own, on any short text or None: the function judge,    *)
(* and the scoring expression of the loop, which is the only place of the  *)
(* program that hands an answer over for scoring                           *)
(***************************************************************************)

JudgeTokens == {"Component:", "Likely Cause", "Suggested Fix", "Error Code:"}

\* the answers generate_answer can hand to the scoring expression: None or a str
JudgeInit ==
  /\ pc = "judge"
  /\ arg \in {NoneVal} \cup {Str(t) : t \in SeqsUpTo(JudgeTokens, MaxAnswerLen)}
  /\ ret = NoneVal
  /\ query = <<>>
  /\ logs = <<>>
  /\ knowledge = <<>>
  /\ metrics = <<>>
  /\ strategies = <<>>
  /\ strategy_scores = <<>>
  /\ strategy_answers = <<>>
  /\ agent_pass = 0
  /\ idx = 1
  /\ result = NoneVal
  /\ stdout = <<>>
  /\ clock = 1
  /\ raised = FALSE
  /\ provider_calls = <<>>
  /\ search_requests = <<>>
  /\ attempts = <<>>
  /\ vec_in = <<>>
  /\ kw_in = <<>>
  /\ merged = <<>>

\* judge(answer) returns
JudgeReturns ==
  /\ pc = "judge"
  /\ ~judge_raises(arg)
  /\ pc' = "judged"
  /\ ret' = [score |-> judge(arg)]
  /\ UNCHANGED <<arg, raised, query, logs, knowledge, metrics, strategies,
                 strategy_scores, strategy_answers, agent_pass, idx, result,
                 stdout, clock, provider_calls, search_requests, attempts,
                 vec_in, kw_in, merged>>

\* judge(answer) raises TypeError at its first membership test (a call the
\* loop does not make: it tests the answer first)
JudgeRaises ==
  /\ pc = "judge"
  /\ judge_raises(arg)
  /\ pc' = "type_error"
  /\ raised' = TRUE
  /\ UNCHANGED <<arg, ret, query, logs, knowledge, metrics, strategies,
                 strategy_scores, strategy_answers, agent_pass, idx, result,
                 stdout, clock, provider_calls, search_requests, attempts,
                 vec_in, kw_in, merged>>

\* score = judge(answer) if answer else 0.0
ScoreAnswer ==
  /\ pc = "judge"
  /\ pc' = "scored"
  /\ ret' = [score |-> Score(arg)]
  /\ UNCHANGED <<arg, raised, query, logs, knowledge, metrics, strategies,
                 strategy_scores, strategy_answers, agent_pass, idx, result,
                 stdout, clock, provider_calls, search_requests, attempts,
                 vec_in, kw_in, merged>>

JudgeNext == JudgeReturns \/ JudgeRaises \/ ScoreAnswer

JudgeSpec == JudgeInit /\ [][JudgeNext]_vars

----------------------------------------------------------------------------
(* Properties *)

AllStrategies == {CanonicalStrategies[i][1] : i \in 1..Len(CanonicalStrategies)}

\* adaptive_retrieval has returned
Returned == pc \in {"print", "done", "crashed"}

\* the retrieval of strategy s in pass p returned an empty list
EmptyIn(s, p) ==
  \E i \in 1..Len(attempts) :
     attempts[i].strategy = s /\ attempts[i].pass = p /\ attempts[i].empty

NonEmptyIn(s, p) ==
  \E i \in 1..Len(attempts) :
     attempts[i].strategy = s /\ attempts[i].pass = p /\ ~attempts[i].empty

AllEmpty == \A s \in AllStrategies : \A p \in 0..(NumPasses - 1) : EmptyIn(s, p)

IsSentinel(r) ==
  /\ "winning_strategy" \notin DOMAIN r
  /\ "confidence" \notin DOMAIN r
  /\ r = [answer |-> Str(<<"No confident answer found.">>)]

\* C1: when every strategy's retrieval returns an empty list in both
\* passes, adaptive_retrieval returns the "no confident answer found"
\* sentinel, a result with no winning strategy and no confidence.
C1_SentinelWhenAllEmpty == (Returned /\ AllEmpty) => IsSentinel(result)

IdsOf(list) == {IdKey(list[i]) : i \in 1..Len(list)}

ElemsOf(list) == {list[i] : i \in 1..Len(list)}

EachIdentityOnce(list) ==
  \A i, j \in 1..Len(list) : i # j => IdKey(list[i]) # IdKey(list[j])

\* C2 as stated: for every identity in both result lists the merged list
\* holds the vector-search version, keyword results only add documents
\* whose identity is not present, and each identity appears exactly once.
C2_VectorVersionRetained ==
  pc = "hybrid_done" =>
    /\ EachIdentityOnce(merged)
    /\ IdsOf(merged) = IdsOf(vec_in) \cup IdsOf(kw_in)
    /\ \A i \in 1..Len(merged) :
         IdKey(merged[i]) \in IdsOf(vec_in) => merged[i] \in ElemsOf(vec_in)

\* C2 amended: for every identity in both result lists the merged list
\* holds the keyword-search version (last writer wins) at the position the
\* identity has in the vector results; the keyword documents of the other
\* identities follow in keyword order; each identity appears exactly once.
C2_KeywordVersionRetained ==
  pc = "hybrid_done" =>
    /\ EachIdentityOnce(merged)
    /\ IdsOf(merged) = IdsOf(vec_in) \cup IdsOf(kw_in)
    /\ Len(merged) >= Len(vec_in)
    /\ \A i \in 1..Len(vec_in) :
         /\ IdKey(merged[i]) = IdKey(vec_in[i])
         /\ IF IdKey(vec_in[i]) \in IdsOf(kw_in)
            THEN merged[i] \in ElemsOf(kw_in)
            ELSE merged[i] = vec_in[i]
    /\ LET NotInVec(d) == IdKey(d) \notin IdsOf(vec_in)
       IN SubSeq(merged, Len(vec_in) + 1, Len(merged)) = SelectSeq(kw_in, NotInVec)

\* a merge of overlapping lists: an identity in both, whose two versions
\* differ, and an identity in the keyword results only
C2_Witness ==
  /\ pc = "hybrid_done"
  /\ \E i \in 1..Len(vec_in) : \E j \in 1..Len(kw_in) :
       IdKey(vec_in[i]) = IdKey(kw_in[j]) /\ vec_in[i] # kw_in[j]
  /\ \E j \in 1..Len(kw_in) : IdKey(kw_in[j]) \notin IdsOf(vec_in)

ReportPrinted ==
  \E i \in 1..Len(stdout) :
     /\ i + 3 <= Len(stdout)
     /\ stdout[i].kind = "winner"
     /\ stdout[i + 1].kind = "confidence"
     /\ stdout[i + 2].kind = "dashes"
     /\ stdout[i + 3].kind = "body"

NoAnswerPrinted == \E i \in 1..Len(stdout) : stdout[i].kind = "no_answer"

\* C3: a run in which no store or embedding call fails ends normally, and
\* has then printed exactly one of the report block and the "no confident
\* answer found" message.
C3_OneOfTwoOutcomes ==
  /\ pc # "crashed"
  /\ pc = "done" => (ReportPrinted /\ ~NoAnswerPrinted) \/ (NoAnswerPrinted /\ ~ReportPrinted)

OnlyKnowledgeVector ==
  \A p \in 0..(NumPasses - 1) :
     /\ NonEmptyIn("knowledge_vector", p)
     /\ \A s \in AllStrategies \ {"knowledge_vector"} : EmptyIn(s, p)

HasMarkers(answer) ==
  /\ answer.t = "str"
  /\ Contains(answer.v, "Component:")
  /\ Contains(answer.v, "Likely Cause")
  /\ Contains(answer.v, "Suggested Fix")

\* C4: when knowledge_vector returns a non-empty list in both passes and
\* the three other strategies return empty lists in both passes, the
\* result names knowledge_vector with confidence 1.0 and an answer that
\* contains "Component:", "Likely Cause" and "Suggested Fix".
C4_KnowledgeVectorWins ==
  (Returned /\ OnlyKnowledgeVector) =>
    /\ DOMAIN result = {"answer", "winning_strategy", "confidence"}
    /\ result["winning_strategy"] = "knowledge_vector"
    /\ result["confidence"] = 10
    /\ HasMarkers(result["answer"])

C4_Witness == pc = "done" /\ OnlyKnowledgeVector

\* the largest score in the metrics records of strategy s
RecordedBest(s) ==
  LET S == {metrics[i].score : i \in {j \in 1..Len(metrics) : metrics[j].strategy = s}}
  IN IF S = {} THEN 0 ELSE CHOOSE x \in S : \A y \in S : y <= x

CanonicalIndex(s) == CHOOSE i \in 1..Len(CanonicalStrategies) : CanonicalStrategies[i][1] = s

\* C5: the winning strategy's best score is the maximum over all
\* strategies, the confidence is the largest judge score recorded for the
\* winner over both passes, and among the strategies that tie for the
\* maximum the winner is the first in the canonical order, in which the
\* scores map was filled in pass 0.
C5_WinnerIsFirstMaximum ==
  Returned =>
    /\ DOMAIN result = {"answer", "winning_strategy", "confidence"}
    /\ [i \in 1..Len(strategy_scores) |-> strategy_scores[i][1]]
         = [i \in 1..Len(CanonicalStrategies) |-> CanonicalStrategies[i][1]]
    /\ LET w == result["winning_strategy"]
       IN /\ w \in AllStrategies
          /\ \A s \in AllStrategies :
               DictGet(strategy_scores, s, 0) <= DictGet(strategy_scores, w, 0)
          /\ result["confidence"] = RecordedBest(w)
          /\ \A s \in AllStrategies :
               CanonicalIndex(s) < CanonicalIndex(w) => RecordedBest(s) < RecordedBest(w)

\* a tie for the maximum in which the pass-1 order starts with another
\* strategy than the winner
C5_Witness ==
  /\ pc = "done"
  /\ \E s \in AllStrategies \ {result["winning_strategy"]} :
       /\ RecordedBest(s) = RecordedBest(result["winning_strategy"])
       /\ RecordedBest(s) = 10
       /\ \E i \in 1..Len(metrics) :
            /\ metrics[i].pass = 1
            /\ metrics[i].strategy = s
            /\ \A j \in 1..Len(metrics) :
                 (metrics[j].pass = 1 /\ metrics[j].strategy = result["winning_strategy"])
                   => i < j

\* the answer strategy s produced in pass p
AnswerIn(s, p) ==
  LET i == CHOOSE j \in 1..Len(attempts) : attempts[j].strategy = s /\ attempts[j].pass = p
  IN attempts[i].answer

\* C6: the returned answer is the one the winning strategy produced in
\* pass index 1, whatever it scored, and no step lowers a stored best
\* score.
C6_LatestAnswerBestScore ==
  /\ [](Returned =>
          /\ "winning_strategy" \in DOMAIN result
          /\ \E j \in 1..Len(attempts) :
               attempts[j].strategy = result["winning_strategy"] /\ attempts[j].pass = 1
          /\ result["answer"] = AnswerIn(result["winning_strategy"], 1))
  /\ [][\A s \in AllStrategies :
          DictGet(strategy_scores', s, 0) >= DictGet(strategy_scores, s, 0)]_vars

\* an absent answer returned with confidence 1.0: the winner scored 1.0 in
\* pass 0 and 0.0 in pass 1
C6_Witness ==
  /\ Returned
  /\ result["confidence"] = 10
  /\ result["answer"] = NoneVal
  /\ Score(result["answer"]) < result["confidence"]

LoopCompleted == pc \in {"select", "print", "done", "crashed"}

\* C7: a run that no failure aborts appends exactly 8 metrics records, one
\* for each of the 4 strategies in each of the passes 0 and 1, each with
\* the run's query, the strategy, the score and the pass.
C7_EightRecords ==
  LoopCompleted =>
    /\ Len(metrics) = 8
    /\ \A s \in {"logs_vector", "logs_hybrid", "knowledge_vector", "rewrite_knowledge"} :
         \A p \in {0, 1} :
            Cardinality({i \in 1..Len(metrics) :
                           metrics[i].strategy = s /\ metrics[i].pass = p}) = 1
    /\ Len(attempts) = Len(metrics)
    /\ \A i \in 1..Len(metrics) :
         /\ DOMAIN metrics[i] = {"query", "strategy", "score", "pass"}
         /\ metrics[i].query = query
         /\ metrics[i].strategy = attempts[i].strategy
         /\ metrics[i].pass = attempts[i].pass
         /\ metrics[i].score = attempts[i].score

\* a completed run whose passes log different scores for a strategy
C7_Witness ==
  /\ pc = "done"
  /\ Len(metrics) = 8
  /\ \E i, j \in 1..Len(metrics) :
       /\ metrics[i].strategy = metrics[j].strategy
       /\ metrics[i].pass = 0 /\ metrics[j].pass = 1
       /\ metrics[i].score # metrics[j].score

PositionIn(list, x) == CHOOSE i \in 1..Len(list) : list[i] = x

\* after is before sorted by best score, descending, equal scores in
\* their previous relative order
StableDescending(before, after, scores) ==
  /\ Len(after) = Len(before)
  /\ ElemsOf(after) = ElemsOf(before)
  /\ \A i, j \in 1..Len(after) :
       i < j => SortKey(scores, after[i]) >= SortKey(scores, after[j])
  /\ \A i, j \in 1..Len(before) :
       (i < j /\ SortKey(scores, before[i]) = SortKey(scores, before[j]))
         => PositionIn(after, before[i]) < PositionIn(after, before[j])

ExampleScores ==
  <<<<"logs_vector", 6>>, <<"logs_hybrid", 10>>, <<"knowledge_vector", 0>>,
    <<"rewrite_knowledge", 10>>>>

ExampleOrder ==
  <<<<"logs_hybrid", 5>>, <<"rewrite_knowledge", 10>>, <<"logs_vector", 5>>,
    <<"knowledge_vector", 5>>>>

\* C8: the re-sort at the end of a pass is a stable sort of the previous
\* order by best score, descending: a higher score comes first and equal
\* scores keep their order; from the canonical order the scores 0.6, 1.0,
\* 0.0, 1.0 give logs_hybrid, rewrite_knowledge, logs_vector,
\* knowledge_vector.
C8_StableResort ==
  [][pc = "sort" =>
       /\ StableDescending(strategies, strategies', strategy_scores)
       /\ (strategies = CanonicalStrategies /\ strategy_scores = ExampleScores)
            => strategies' = ExampleOrder]_vars

C8_Witness ==
  /\ pc \in {"loop", "select"}
  /\ strategy_scores = ExampleScores
  /\ strategies = ExampleOrder

IsPrefix(a, b) == Len(a) <= Len(b) /\ SubSeq(b, 1, Len(a)) = a

\* C9: when a store or embedding call raises, the run aborts: nothing is
\* returned, the failing attempt gets no score and no metrics record, no
\* later step is taken (no other strategy, no retry), and the records
\* written before stay in the log.
C9_FailureAborts ==
  /\ [](raised =>
          /\ pc = "aborted"
          /\ result = NoneVal
          /\ strategies # <<>> =>
               /\ \A i \in 1..Len(metrics) :
                    ~(metrics[i].strategy = strategies[idx][1]
                      /\ metrics[i].pass = agent_pass)
               /\ Len(metrics) = 4 * agent_pass + (idx - 1)
          /\ strategies = <<>> => metrics = <<>>)
  /\ [][/\ pc # "aborted"
        /\ IsPrefix(metrics, metrics')
        /\ pc' = "aborted" =>
             /\ metrics' = metrics
             /\ strategy_scores' = strategy_scores
             /\ strategy_answers' = strategy_answers]_vars

\* a failure in pass 1, after the records of pass 0 were written
C9_Witness ==
  /\ pc = "aborted"
  /\ raised
  /\ agent_pass = 1
  /\ Len(metrics) > 4

HasEmbedding(doc) == "embedding" \in DOMAIN doc /\ doc["embedding"] # <<>>

NewCalls == SubSeq(provider_calls', Len(provider_calls) + 1, Len(provider_calls'))

\* the step leaves the documents of col that carry an embedding as they
\* are, and makes no provider call for them
KeepsEmbedded(col, colNext, name) ==
  \A i \in DOMAIN col :
     HasEmbedding(col[i]) =>
       /\ colNext[i] = col[i]
       /\ \A c \in 1..Len(NewCalls) : NewCalls[c].who # <<name, i>>

\* C10: no run of ensure_embeddings, the first on a collection or a later
\* one, updates a document that carries a non-empty embedding or calls
\* the embedding provider for it.
C10_EmbeddedDocsUntouched ==
  [][/\ KeepsEmbedded(logs, logs', "mongo_error_logs")
     /\ KeepsEmbedded(knowledge, knowledge', "mongo_error_knowledge")]_vars

\* after a second run on logs: a document embedded by the first run, and
\* in knowledge a document embedded before any run
C10_Witness ==
  /\ clock > 2
  /\ pc = "ensured"
  /\ arg = ColArg("mongo_error_logs")
  /\ \E i \in DOMAIN logs :
       HasEmbedding(logs[i]) /\ logs[i]["embedding_ts"] = 1
  /\ \E i \in DOMAIN knowledge :
       HasEmbedding(knowledge[i]) /\ knowledge[i]["embedding_ts"] = 0

Blank(text) == \A j \in 1..Len(text) : text[j] \in Whitespace

\* what one text field of a document contributes to the text to embed
FieldText(doc, field) == IF field \in DOMAIN doc THEN doc[field] ELSE <<>>

CallsFor(calls, who) == {c \in 1..Len(calls) : calls[c].who = who}

\* a completed ensure_embeddings step took col to colNext: the documents
\* without embedding got one if their text is not blank, and were left
\* alone if it is
Maintained(col, colNext, name, field) ==
  /\ DOMAIN colNext = DOMAIN col
  /\ \A i \in DOMAIN col :
       ~HasEmbedding(col[i]) =>
         IF Blank(FieldText(col[i], field))
         THEN /\ colNext[i] = col[i]
              /\ CallsFor(NewCalls, <<name, i>>) = {}
         ELSE /\ DOMAIN colNext[i]
                   = DOMAIN col[i] \cup {"embedding", "embedding_model", "embedding_ts"}
              /\ colNext[i]["_id"] = i
              /\ \A f \in DOMAIN col[i] \ {"embedding", "embedding_model", "embedding_ts"} :
                   colNext[i][f] = col[i][f]
              /\ Cardinality(CallsFor(NewCalls, <<name, i>>)) = 1
              /\ \A c \in CallsFor(NewCalls, <<name, i>>) :
                   /\ ~Blank(NewCalls[c].text)
                   /\ colNext[i]["embedding"] = VoyageEmbedding(NewCalls[c].text)
              /\ colNext[i]["embedding"] # <<>>
              /\ colNext[i]["embedding_model"] = EMBED_MODEL
              /\ colNext[i]["embedding_ts"] = clock

\* C11: when ensure_embeddings completes on a collection, every document
\* that had no embedding, or an empty one, and whose joined and trimmed
\* text is not empty carries the embedding, the model identifier and the
\* timestamp on that same document; every document whose text is empty is
\* skipped: it is not updated and the provider is not called for it.
C11_MissingEmbeddingsPersisted ==
  [][/\ (pc' = "ensured" /\ arg' = ColArg("mongo_error_logs"))
          => Maintained(logs, logs', "mongo_error_logs", "raw_log")
     /\ (pc' = "ensured" /\ arg' = ColArg("mongo_error_knowledge"))
          => Maintained(knowledge, knowledge', "mongo_error_knowledge", "content")
     /\ (pc = "ensure_logs" /\ pc' = "ensure_knowledge")
          => Maintained(logs, logs', "mongo_error_logs", "raw_log")
     /\ (pc = "ensure_knowledge" /\ pc' = "loop")
          => Maintained(knowledge, knowledge', "mongo_error_knowledge", "content")]_vars

\* after a run on logs and then one on knowledge: a document embedded by
\* the first and a document skipped by the second for its blank text
C11_Witness ==
  /\ pc = "ensured"
  /\ arg = ColArg("mongo_error_knowledge")
  /\ \E i \in DOMAIN logs :
       HasEmbedding(logs[i]) /\ logs[i]["embedding_ts"] = clock - 2
  /\ \E i \in DOMAIN knowledge :
       ~HasEmbedding(knowledge[i]) /\ Blank(FieldText(knowledge[i], "content"))
            /\ "content" \in DOMAIN knowledge[i]

\* C12: the empty vector that embed returns for an empty or blank query
\* is checked before use: no strategy issues a similarity-search request
\* with an empty query vector.
C12_NoEmptyVectorSearch ==
  Blank(query) =>
    \A i \in 1..Len(search_requests) :
       search_requests[i].op = "vectorSearch" =>
         search_requests[i].queryVector # <<>>

\* C13: embed of an empty or blank text returns the empty vector without
\* any provider call; embed of any other text makes exactly one provider
\* call, for that text, whether the call succeeds or raises.
C13_EmbedCallsProviderOnce ==
  pc \in {"embedded", "embed_failed"} =>
    IF Blank(arg.v)
      THEN /\ pc = "embedded"
           /\ ret = [vector |-> <<>>]
           /\ provider_calls = <<>>
      ELSE /\ Len(provider_calls) = 1
           /\ provider_calls[1].text = arg.v
           /\ pc = "embedded" => ret.vector # <<>>

C13_Witness ==
  /\ pc = "embedded"
  /\ arg.v # <<>>
  /\ Blank(arg.v)
  /\ ret = [vector |-> <<>>]
  /\ provider_calls = <<>>

\* the rubric, read off the text: 0.4 for "Component:", 0.3 for
\* "Likely Cause", 0.3 for "Suggested Fix"
Rubric(text) ==
  (IF "Component:" \in ElemsOf(text) THEN 4 ELSE 0)
  + (IF "Likely Cause" \in ElemsOf(text) THEN 3 ELSE 0)
  + (IF "Suggested Fix" \in ElemsOf(text) THEN 3 ELSE 0)

\* C14: the score is a function of the answer text alone, the rubric of
\* that text, whether judge is called on it or the loop scores it, and
\* judge raises on no text; an absent answer handed over for scoring, as
\* the loop does it, yields the score zero and raises nothing.
C14_JudgeIsPureAbsentIsZero ==
  /\ pc = "judged" => ret = [score |-> Rubric(arg.v)]
  /\ pc = "type_error" => arg.t # "str"
  /\ pc = "scored" =>
       /\ ~raised
       /\ ret = [score |-> IF arg = NoneVal THEN 0 ELSE Rubric(arg.v)]

\* the absent answer scored zero
C14_Witness ==
  /\ pc = "scored"
  /\ arg = NoneVal
  /\ ret = [score |-> 0]
  /\ ~raised

\* the score logged for strategy s in pass 0
Pass0Score(s) ==
  LET i == CHOOSE j \in 1..Len(metrics) : metrics[j].strategy = s /\ metrics[j].pass = 0
  IN metrics[i].score

\* the place of s in pass 1: behind every strategy with a higher pass-0
\* score and every canonically earlier strategy with the same score
Pass1Rank(s) ==
  1 + Cardinality({t \in AllStrategies :
                     \/ Pass0Score(t) > Pass0Score(s)
                     \/ /\ Pass0Score(t) = Pass0Score(s)
                        /\ CanonicalIndex(t) < CanonicalIndex(s)})

StrategiesPerPass == Len(CanonicalStrategies)

\* C15: in each pass every strategy is executed exactly once, in the
\* order of the current strategy list: pass 0 in the canonical order,
\* pass 1 in the order of the re-sort after pass 0 (pass-0 score
\* descending, ties in canonical order); the metrics log has the records
\* in the order of execution.
C15_ExecutionFollowsList ==
  /\ Len(metrics) <= NumPasses * StrategiesPerPass
  /\ Len(attempts) = Len(metrics)
  /\ pc = "loop" => Len(metrics) = StrategiesPerPass * agent_pass + idx - 1
  /\ pc = "sort" => Len(metrics) = StrategiesPerPass * (agent_pass + 1)
  /\ \A i \in 1..Len(metrics) :
       /\ metrics[i].pass = (i - 1) \div StrategiesPerPass
       /\ attempts[i].strategy = metrics[i].strategy
       /\ attempts[i].pass = metrics[i].pass
       /\ \A j \in 1..Len(metrics) :
            (j # i /\ metrics[j].pass = metrics[i].pass)
              => metrics[j].strategy # metrics[i].strategy
       /\ metrics[i].pass = 0 => metrics[i].strategy = CanonicalStrategies[i][1]
       /\ metrics[i].pass = 1
            => Pass1Rank(metrics[i].strategy) = i - StrategiesPerPass
       /\ (pc \in {"loop", "sort"} /\ metrics[i].pass = agent_pass)
            => metrics[i].strategy = strategies[i - StrategiesPerPass * agent_pass][1]

\* a completed run whose pass 1 starts with the last canonical strategy
C15_Witness ==
  /\ pc = "done"
  /\ Len(metrics) = NumPasses * StrategiesPerPass
  /\ metrics[StrategiesPerPass + 1].strategy = "rewrite_knowledge"
  /\ metrics[StrategiesPerPass + 1].pass = 1

RecordsOfPass(p) == {i \in 1..Len(metrics) : metrics[i].pass = p}

\* C16: every record of pass n is in the log when the list is re-sorted
\* at the end of pass n: at each re-sort the log holds exactly one record
\* per strategy for the pass just completed and for every earlier pass,
\* and at no time a record of a pass that has not yet begun.
C16_LoggedBeforeResort ==
  /\ \A i \in 1..Len(metrics) : metrics[i].pass <= agent_pass
  /\ pc = "loop" => Cardinality(RecordsOfPass(agent_pass)) = idx - 1
  /\ pc = "sort" =>
       /\ Len(metrics) = StrategiesPerPass * (agent_pass + 1)
       /\ \A p \in 0..agent_pass :
            \A s \in AllStrategies :
               Cardinality({i \in RecordsOfPass(p) : metrics[i].strategy = s}) = 1

\* the re-sort at the end of pass 1, with the records of both passes
C16_Witness ==
  /\ pc = "sort"
  /\ agent_pass = 1
  /\ Cardinality(RecordsOfPass(0)) = StrategiesPerPass
  /\ Cardinality(RecordsOfPass(1)) = StrategiesPerPass

\* the attempt of strategy s in pass p
AttemptOf(s, p) ==
  attempts[CHOOSE i \in 1..Len(attempts) :
             attempts[i].strategy = s /\ attempts[i].pass = p]

\* the k-th attempt of a run that keeps the canonical order in every pass
CanonicalAttempt(k) ==
  AttemptOf(CanonicalStrategies[((k - 1) % StrategiesPerPass) + 1][1],
            (k - 1) \div StrategiesPerPass)

\* the scores and answers maps of that run after its first k attempts
RECURSIVE CanonicalScores(_)
CanonicalScores(k) ==
  IF k = 0 THEN <<>>
  ELSE UpdateScores(CanonicalScores(k - 1), CanonicalAttempt(k).strategy,
                    CanonicalAttempt(k).score)

RECURSIVE CanonicalAnswers(_)
CanonicalAnswers(k) ==
  IF k = 0 THEN <<>>
  ELSE UpdateAnswers(CanonicalAnswers(k - 1), CanonicalAttempt(k).strategy,
                     CanonicalAttempt(k).answer)

SameMap(d, e) ==
  /\ {d[i][1] : i \in 1..Len(d)} = {e[i][1] : i \in 1..Len(e)}
  /\ \A i \in 1..Len(d) : DictGet(e, d[i][1], NoneVal) = d[i][2]

\* C17: the re-sort between the passes does not change the outcome: with
\* the same retrieval result for each (strategy, pass), the best-score
\* map, the winning strategy, the confidence and the answer are those of
\* a run that executes both passes in the canonical order.
C17_ResortKeepsOutcome ==
  Returned =>
    LET n == NumPasses * StrategiesPerPass
    IN /\ Len(attempts) = n
       /\ SameMap(strategy_scores, CanonicalScores(n))
       /\ result = SelectResult(CanonicalScores(n), CanonicalAnswers(n))

\* a returned run whose pass 1 did not run in the canonical order and in
\* which a strategy without an answer in pass 0 found one in pass 1
C17_Witness ==
  /\ pc = "done"
  /\ \E i \in 1..StrategiesPerPass :
       attempts[StrategiesPerPass + i].strategy # CanonicalStrategies[i][1]
  /\ \E s \in AllStrategies : AttemptOf(s, 0).score < AttemptOf(s, 1).score
  /\ "winning_strategy" \in DOMAIN result

AnswerFields == {"component", "error_code", "normalized_message", "raw_log", "content"}

\* first-ranked documents with any of the fields the template reads, each
\* empty or itself a marker
AnyFirstDocs ==
  UNION {[F -> {<<>>, <<"Component:">>}] : F \in SUBSET AnswerFields}

\* C18: every score the loop records is 1.0 when the strategy retrieved
\* at least one document and 0.0 when it retrieved none; the answer made
\* from any first-ranked document, whatever fields it has, is judged 1.0.
C18_ScoreIsAllOrNothing ==
  /\ \A i \in 1..Len(metrics) :
       metrics[i].score = IF attempts[i].empty THEN 0 ELSE 10
  /\ \A i \in 1..Len(attempts) :
       /\ attempts[i].empty <=> attempts[i].answer = NoneVal
       /\ attempts[i].score = metrics[i].score
  \* the same for the answers to the run's query from documents that the
  \* collections of this run do not hold (a fact about the query alone,
  \* evaluated where the run starts)
  /\ pc = "ensure_logs" =>
       /\ \A d \in AnyFirstDocs : Score(generate_answer(query, <<d>>)) = 10
       /\ Score(generate_answer(query, <<>>)) = 0

\* both scores recorded, the 1.0 for a document without a component
C18_Witness ==
  /\ \E i \in 1..Len(metrics) : metrics[i].score = 0 /\ attempts[i].empty
  /\ \E i \in 1..Len(metrics) :
       /\ metrics[i].score = 10
       /\ metrics[i].strategy = "knowledge_vector"
       /\ Contains(attempts[i].answer.v, "UNKNOWN")

Executed(s) == \E i \in 1..Len(metrics) : metrics[i].strategy = s

\* C19: for every strategy executed at least once the stored best score
\* is the largest score in the metrics records logged for it so far, and
\* no step lowers a stored best score.
C19_BestSoFarIsLoggedMaximum ==
  /\ [](\A s \in AllStrategies :
          /\ Executed(s) <=> DictHas(strategy_scores, s)
          /\ Executed(s) => DictGet(strategy_scores, s, 0) = RecordedBest(s))
  /\ [][\A s \in AllStrategies :
          DictHas(strategy_scores, s) =>
            /\ DictHas(strategy_scores', s)
            /\ DictGet(strategy_scores', s, 0) >= DictGet(strategy_scores, s, 0)]_vars

\* a strategy logged with 1.0 in pass 0 and 0.0 in pass 1, its best still 1.0
C19_Witness ==
  \E i, j \in 1..Len(metrics) :
     /\ i < j
     /\ metrics[i].strategy = metrics[j].strategy
     /\ metrics[i].score = 10
     /\ metrics[j].score = 0
     /\ DictGet(strategy_scores, metrics[i].strategy, 0) = 10

CanonicalPairs ==
  {<<"logs_vector", 5>>, <<"logs_hybrid", 5>>, <<"knowledge_vector", 5>>,
   <<"rewrite_knowledge", 10>>}

\* the requests of rewrite_knowledge: those for the rewritten query
OfRewrite(req) ==
  /\ req.op = "vectorSearch"
  /\ req.col = "mongo_error_knowledge"
  /\ req.queryVector = embed(rewrite_query(query))

\* C20: from its creation on the strategy list is a permutation of the
\* four canonical (strategy, top_k) pairs, before and after each re-sort,
\* so every search of logs_vector, logs_hybrid and knowledge_vector asks
\* for 5 documents and every search of rewrite_knowledge for 10.
C20_ListIsPermutation ==
  /\ strategies # <<>> =>
       /\ Len(strategies) = Cardinality(CanonicalPairs)
       /\ ElemsOf(strategies) = CanonicalPairs
  /\ pc \in {"loop", "sort"} => strategies # <<>>
  /\ \A i \in 1..Len(search_requests) :
       search_requests[i].limit = IF OfRewrite(search_requests[i]) THEN 10 ELSE 5

\* the end of a pass 1 that ran in another order than the canonical one,
\* with a search of rewrite_knowledge made in each pass
C20_Witness ==
  /\ pc = "sort"
  /\ agent_pass = 1
  /\ strategies # CanonicalStrategies
  /\ Cardinality({i \in 1..Len(search_requests) : OfRewrite(search_requests[i])})
       = NumPasses

====
